---------------------------- MODULE Spec2Model ----------------------------
(* A model of app/tools/satellites.py (SatellitesParser): the table        *)
(* tokenizer (the HTMLParser callbacks), the two satellite-list adapters,   *)
(* the two transponder extractors and the fetch orchestration around them;  *)
(* and of app/ui/settings_dialog.py (SettingsDialog): the options mapping   *)
(* of the caller under the events of the dialog.                            *)
(*                                                                          *)
(* A Python str is modelled as the sequence of its characters, each a       *)
(* one-character TLA+ string, so that split, strip, join, int() and the     *)
(* regular expressions are computed character by character.                 *)
EXTENDS Integers, Sequences, FiniteSets, TLC

VARIABLES
    is_td,          \* SatellitesParser._is_td
    is_th,          \* SatellitesParser._is_th (set by <tr>, cleared by </tr>)
    current_row,    \* SatellitesParser._current_row
    current_cell,   \* SatellitesParser._current_cell
    rows,           \* SatellitesParser._rows
    source,         \* SatellitesParser._source
    pc,             \* position of the running call
    raised,         \* the exception that left the running call, "none" if none
    result,         \* the value the call returned (None until it returns)
    events,         \* tokenizer: the tag/text events consumed so far
    pages,          \* the responses the network gives to the running call
    page_no,        \* get_satellites_list: index of the next source URL
    idx,            \* extractor / adapter loop: index of the next row
    trs,            \* get_transponders: trs
    n_trs,          \* get_transponders_for_fly_sat: n_trs
    is_ids,         \* get_transponders_for_fly_sat: is_ids
    sats,           \* get_satellites_list (LyngSat branch): sats
    current_pos,    \* get_satellites_list (LyngSat branch): current_pos
    fed,            \* the documents fed to the tokenizer by the running call
    calls,          \* number of calls made on the parser instance
    sat,            \* get_satellite: its argument, None outside get_satellite
    options,        \* SettingsDialog._options, the mapping of the caller
    active_profile, \* SettingsDialog._active_profile
    fields,         \* SettingsDialog: the values shown by the entry widgets
    enigma_radio_button,  \* SettingsDialog._enigma_radio_button.get_active()
    written,        \* the mappings write_config was called with
    options_before  \* the mapping of the caller when the dialog was opened

vars == <<is_td, is_th, current_row, current_cell, rows, source, pc, raised,
          result, events, pages, page_no, idx, trs, n_trs, is_ids, sats,
          current_pos, fed, calls, sat, options, active_profile, fields,
          enigma_radio_button, written, options_before>>

dlgVars ==
    <<options, active_profile, fields, enigma_radio_button, written,
      options_before>>

tokVars == <<is_td, is_th, current_row, current_cell, rows>>

(***************************************************************************)
(* Bounds of the model.                                                    *)
(***************************************************************************)
MaxEvents == 4      \* tokenizer: events fed in one behaviour
MaxRows == 4        \* extractor: rows of a detail page
MaxListRows == 3    \* adapter: rows accumulated over the source pages
MaxCalls == 2       \* orchestration: calls on one parser instance

(***************************************************************************)
(* Python values.                                                          *)
(***************************************************************************)
\* None: a one-element sequence that is no string of the model.
None == <<"None">>

\* The empty str.
Empty == <<>>

Digits == {"0", "1", "2", "3", "4", "5", "6", "7", "8", "9"}

Letters ==
    {"A", "B", "C", "D", "E", "F", "G", "H", "I", "J", "K", "L", "M", "N", "O",
     "P", "Q", "R", "S", "T", "U", "V", "W", "X", "Y", "Z",
     "a", "b", "c", "d", "e", "f", "g", "h", "i", "j", "k", "l", "m", "n", "o",
     "p", "q", "r", "s", "t", "u", "v", "w", "x", "y", "z"}

\* str.isdigit / str.isalpha on one character (ASCII alphabet of the model).
IsDigit(c) == c \in Digits

IsAlpha(c) == c \in Letters

IsSpace(c) == c = " "

DigitVal(c) ==
    CASE c = "0" -> 0 [] c = "1" -> 1 [] c = "2" -> 2 [] c = "3" -> 3
      [] c = "4" -> 4 [] c = "5" -> 5 [] c = "6" -> 6 [] c = "7" -> 7
      [] c = "8" -> 8 [] c = "9" -> 9

AllDigits(s) == \A i \in 1..Len(s) : IsDigit(s[i])

\* int(s) for a non-empty string of decimal digits.
RECURSIVE IntOf(_)
IntOf(s) ==
    IF Len(s) = 0 THEN 0
    ELSE 10 * IntOf(SubSeq(s, 1, Len(s) - 1)) + DigitVal(s[Len(s)])

\* int(s) succeeds (the strings of the model carry no sign or blanks inside).
IntParses(s) == Len(s) > 0 /\ AllDigits(s)

Drop(s, n) == SubSeq(s, n + 1, Len(s))

Take(s, n) == SubSeq(s, 1, n)

StartsWith(s, p) == Len(s) >= Len(p) /\ Take(s, Len(p)) = p

\* str.strip(): leading and trailing blanks removed.
RECURSIVE LStrip(_)
LStrip(s) == IF Len(s) > 0 /\ IsSpace(s[1]) THEN LStrip(Tail(s)) ELSE s

RECURSIVE RStrip(_)
RStrip(s) ==
    IF Len(s) > 0 /\ IsSpace(s[Len(s)]) THEN RStrip(Take(s, Len(s) - 1)) ELSE s

Strip(s) == RStrip(LStrip(s))

\* sep.join(parts) for a one-character separator.
RECURSIVE Join(_, _)
Join(parts, sep) ==
    IF Len(parts) = 0 THEN Empty
    ELSE IF Len(parts) = 1 THEN parts[1]
    ELSE parts[1] \o <<sep>> \o Join(Tail(parts), sep)

\* s.split(sep) for a one-character separator: always at least one part.
RECURSIVE SplitAcc(_, _, _)
SplitAcc(s, sep, cur) ==
    IF Len(s) = 0 THEN <<cur>>
    ELSE IF s[1] = sep THEN <<cur>> \o SplitAcc(Tail(s), sep, Empty)
    ELSE SplitAcc(Tail(s), sep, Append(cur, s[1]))

Split(s, sep) == SplitAcc(s, sep, Empty)

\* Number of leading decimal digits of s.
RECURSIVE LeadDigits(_)
LeadDigits(s) ==
    IF Len(s) > 0 /\ IsDigit(s[1]) THEN 1 + LeadDigits(Tail(s)) ELSE 0

\* Number of leading blanks of s.
RECURSIVE LeadSpaces(_)
LeadSpaces(s) ==
    IF Len(s) > 0 /\ IsSpace(s[1]) THEN 1 + LeadSpaces(Tail(s)) ELSE 0

(***************************************************************************)
(* The table tokenizer.  A parser state p is the record of the instance's  *)
(* fields; exc names the exception a callback raised.                      *)
(***************************************************************************)
Parser ==
    [is_td |-> is_td, is_th |-> is_th, current_row |-> current_row,
     current_cell |-> current_cell, rows |-> rows, exc |-> "none"]

\* SatellitesParser.__init__: the fields of a new instance.
NewParser ==
    [is_td |-> FALSE, is_th |-> FALSE, current_row |-> <<>>,
     current_cell |-> <<>>, rows |-> <<>>, exc |-> "none"]

\* handle_starttag(tag, attrs); attrs is a sequence of <<name, value>> pairs.
handle_starttag(p, tag, attrs) ==
    LET p1 == IF tag = "td" THEN [p EXCEPT !.is_td = TRUE] ELSE p
        p2 == IF tag = "tr" THEN [p1 EXCEPT !.is_th = TRUE] ELSE p1
    IN  IF tag = "a"
        THEN IF Len(attrs) = 0
             THEN [p2 EXCEPT !.exc = "IndexError"]
             ELSE [p2 EXCEPT !.current_row = Append(@, attrs[1][2])]
        ELSE p2

\* handle_data(data)
handle_data(p, data) ==
    IF p.is_td \/ p.is_th
    THEN [p EXCEPT !.current_cell = Append(@, Strip(data))]
    ELSE p

\* handle_endtag(tag), with the separator of the default constructor (' ').
handle_endtag(p, tag) ==
    LET p1 == IF tag = "td" THEN [p EXCEPT !.is_td = FALSE]
              ELSE IF tag = "tr" THEN [p EXCEPT !.is_th = FALSE]
              ELSE p
    IN  IF tag \in {"td", "th"}
        THEN [p1 EXCEPT !.current_row =
                            Append(@, Strip(Join(p1.current_cell, " "))),
                        !.current_cell = <<>>]
        ELSE IF tag = "tr"
        THEN [p1 EXCEPT !.rows = Append(@, p1.current_row),
                        !.current_row = <<>>]
        ELSE p1

\* One event of the markup stream, dispatched to its callback.
StartEv(tag, attrs) == [kind |-> "start", tag |-> tag, attrs |-> attrs, data |-> Empty]

DataEv(data) == [kind |-> "data", tag |-> "", attrs |-> <<>>, data |-> data]

EndEv(tag) == [kind |-> "end", tag |-> tag, attrs |-> <<>>, data |-> Empty]

handle_event(p, e) ==
    CASE e.kind = "start" -> handle_starttag(p, e.tag, e.attrs)
      [] e.kind = "data" -> handle_data(p, e.data)
      [] e.kind = "end" -> handle_endtag(p, e.tag)

\* HTMLParser.feed(text): the callbacks in document order; an exception
\* raised by a callback ends the feed.
RECURSIVE feed(_, _)
feed(p, doc) ==
    IF Len(doc) = 0 \/ p.exc # "none" THEN p
    ELSE feed(handle_event(p, doc[1]), Tail(doc))

(***************************************************************************)
(* Specification SpecTok: one parser instance consuming a markup stream,   *)
(* one callback per step.                                                  *)
(***************************************************************************)
\* Attribute lists an <a> tag carries in the model.
u1 == <<"u", "1">>

AnchorAttrs ==
    {<<>>,
     <<<<"href", u1>>>>,
     <<<<"class", <<"c">>>>, <<"href", u1>>>>}

StartTags == {"tr", "td", "th", "span"}

EndTags == {"tr", "td", "th", "a"}

\* Text nodes: a word, a word after a blank, white space only.
Texts == {<<"x">>, <<" ", "y">>, <<" ">>}

SetParser(p) ==
    /\ is_td' = p.is_td
    /\ is_th' = p.is_th
    /\ current_row' = p.current_row
    /\ current_cell' = p.current_cell
    /\ rows' = p.rows

otherVars ==
    <<source, pc, result, pages, page_no, idx, trs, n_trs, is_ids, sats,
      current_pos, fed, calls, sat, dlgVars>>

\* No settings dialog exists.
NoDialog ==
    /\ options = None
    /\ active_profile = None
    /\ fields = None
    /\ enigma_radio_button = FALSE
    /\ written = <<>>
    /\ options_before = None

InitRest ==
    /\ source = "FLYSAT"
    /\ result = None
    /\ raised = "none"
    /\ events = <<>>
    /\ pages = <<>>
    /\ page_no = 1
    /\ idx = 1
    /\ trs = <<>>
    /\ n_trs = <<>>
    /\ is_ids = <<>>
    /\ sats = <<>>
    /\ current_pos = <<"0">>
    /\ fed = <<>>
    /\ calls = 0
    /\ sat = None
    /\ NoDialog

InitParser ==
    /\ is_td = FALSE
    /\ is_th = FALSE
    /\ current_row = <<>>
    /\ current_cell = <<>>
    /\ rows = <<>>

TokInit == InitParser /\ InitRest /\ pc = "tok"

TokStep(e) ==
    /\ pc = "tok"
    /\ raised = "none"
    /\ Len(events) < MaxEvents
    /\ LET p == handle_event(Parser, e)
       IN  SetParser(p) /\ raised' = p.exc
    /\ events' = Append(events, e)
    /\ UNCHANGED otherVars

HandleStartTag == \E t \in StartTags : TokStep(StartEv(t, <<>>))

HandleAnchorTag == \E a \in AnchorAttrs : TokStep(StartEv("a", a))

HandleData == \E d \in Texts : TokStep(DataEv(d))

HandleEndTag == \E t \in EndTags : TokStep(EndEv(t))

TokNext == HandleStartTag \/ HandleAnchorTag \/ HandleData \/ HandleEndTag

SpecTok == TokInit /\ [][TokNext]_vars

(***************************************************************************)
(* Reading the consumed stream: where rows and cells open and close.       *)
(***************************************************************************)
IsStartOf(e, tags) == e.kind = "start" /\ e.tag \in tags

IsEndOf(e, tags) == e.kind = "end" /\ e.tag \in tags

\* Index of the last start (end) tag of evs among tags, 0 when there is none.
RECURSIVE LastStart(_, _)
LastStart(evs, tags) ==
    IF Len(evs) = 0 THEN 0
    ELSE IF IsStartOf(evs[Len(evs)], tags) THEN Len(evs)
    ELSE LastStart(Take(evs, Len(evs) - 1), tags)

RECURSIVE LastEnd(_, _)
LastEnd(evs, tags) ==
    IF Len(evs) = 0 THEN 0
    ELSE IF IsEndOf(evs[Len(evs)], tags) THEN Len(evs)
    ELSE LastEnd(Take(evs, Len(evs) - 1), tags)

\* A <tr> is open at the end of evs.
InRow(evs) == LastStart(evs, {"tr"}) > LastEnd(evs, {"tr"})

\* The text nodes of evs[from..to], each stripped as handle_data stores it.
RECURSIVE TextsBetween(_, _, _)
TextsBetween(evs, from, to) ==
    IF from > to THEN <<>>
    ELSE (IF evs[from].kind = "data" THEN <<Strip(evs[from].data)>> ELSE <<>>)
         \o TextsBetween(evs, from + 1, to)

\* The last event closes a cell that was opened, by a tag of the same name,
\* inside the row that is open, with no other cell tag in between.
ClosesCellInRow ==
    /\ Len(events) > 0
    /\ raised = "none"
    /\ LET n == Len(events)
           pre == Take(events, n - 1)
           o == LastStart(pre, {"td", "th"})
       IN  /\ IsEndOf(events[n], {"td", "th"})
           /\ o > 0
           /\ events[o].tag = events[n].tag
           /\ o > LastEnd(pre, {"td", "th"})
           /\ o > LastStart(pre, {"tr"})
           /\ LastStart(pre, {"tr"}) > LastEnd(pre, {"tr"})

\* The text of the cell the last event closes, read off the stream.
ClosedCellText ==
    LET n == Len(events)
        o == LastStart(Take(events, n - 1), {"td", "th"})
    IN  Strip(Join(TextsBetween(events, o + 1, n - 1), " "))

\* C8: a <td>/<th> closed inside a row yields one cell whose text is the
\* join of exactly the text nodes that occurred inside that cell; text of
\* the row outside any cell is in no cell.
C8_CellTextIsTextInsideCell ==
    ClosesCellInRow =>
        /\ Len(current_row) > 0
        /\ current_row[Len(current_row)] = ClosedCellText

HasHref(attrs) == \E i \in 1..Len(attrs) : attrs[i][1] = "href"

HrefOf(attrs) ==
    attrs[CHOOSE i \in 1..Len(attrs) : attrs[i][1] = "href"][2]

\* C9: an <a> opened inside a row appends one cell, the value of its href
\* attribute wherever href stands among the attributes, at the place of the
\* row where the anchor opens.
C9_AnchorCellIsHref ==
    [][\A a \in AnchorAttrs :
          (/\ pc = "tok"
           /\ events' = Append(events, StartEv("a", a))
           /\ HasHref(a)
           /\ InRow(events))
          => current_row' = Append(current_row, HrefOf(a))]_vars

(***************************************************************************)
(* Text matching used by the extractors.                                   *)
(***************************************************************************)
UpperSeq ==
    <<"A", "B", "C", "D", "E", "F", "G", "H", "I", "J", "K", "L", "M", "N", "O",
      "P", "Q", "R", "S", "T", "U", "V", "W", "X", "Y", "Z">>

LowerSeq ==
    <<"a", "b", "c", "d", "e", "f", "g", "h", "i", "j", "k", "l", "m", "n", "o",
      "p", "q", "r", "s", "t", "u", "v", "w", "x", "y", "z">>

\* str.lower / str.upper on one character.
Lower(c) ==
    IF \E i \in 1..26 : UpperSeq[i] = c
    THEN LowerSeq[CHOOSE i \in 1..26 : UpperSeq[i] = c]
    ELSE c

Upper(c) ==
    IF \E i \in 1..26 : LowerSeq[i] = c
    THEN UpperSeq[CHOOSE i \in 1..26 : LowerSeq[i] = c]
    ELSE c

LowerStr(s) == [i \in 1..Len(s) |-> Lower(s[i])]

\* str.capitalize(): first character upper case, the rest lower case.
Capitalize(s) == [i \in 1..Len(s) |-> IF i = 1 THEN Upper(s[i]) ELSE Lower(s[i])]

\* s starts with the word w; ci: letter case ignored (re.IGNORECASE).
StartsAs(s, w, ci) ==
    /\ Len(s) >= Len(w)
    /\ IF ci THEN LowerStr(Take(s, Len(w))) = LowerStr(w)
       ELSE Take(s, Len(w)) = w

\* Number of leading repetitions of the word w in s: the greedy (w)+ .
RECURSIVE Reps(_, _, _)
Reps(s, w, ci) ==
    IF StartsAs(s, w, ci) THEN 1 + Reps(Drop(s, Len(w)), w, ci) ELSE 0

\* Length of the alternative of (Root|Gold|Combo) s starts with, 0 if none.
ModeLen(s, ci) ==
    IF StartsAs(s, <<"R", "o", "o", "t">>, ci) \/ StartsAs(s, <<"G", "o", "l", "d">>, ci) THEN 4
    ELSE IF StartsAs(s, <<"C", "o", "m", "b", "o">>, ci) THEN 5
    ELSE 0

\* Characters the greedy (Root|Gold|Combo)+ takes at the start of s.
RECURSIVE ModeRepsLen(_, _)
ModeRepsLen(s, ci) ==
    IF ModeLen(s, ci) = 0 THEN 0
    ELSE ModeLen(s, ci) + ModeRepsLen(Drop(s, ModeLen(s, ci)), ci)

\* The group (Root|Gold|Combo) holds its last repetition: the last word of
\* the n > 0 characters the repetition took.
LastMode(s, n, ci) ==
    IF ModeLen(SubSeq(s, n - 3, n), ci) = 4 THEN SubSeq(s, n - 3, n)
    ELSE SubSeq(s, n - 4, n)

\* ecommons.PLS_MODE inverted, as both extractors build it: name -> code.
pls_modes(name) ==
    CASE name = <<"R", "o", "o", "t">> -> <<"0">>
      [] name = <<"G", "o", "l", "d">> -> <<"1">>
      [] name = <<"C", "o", "m", "b", "o">> -> <<"2">>
      [] OTHER -> None

\* Digits of a match of "(Stream) (\d+)" at the start of s, 0 if none.
StreamAt(s) ==
    IF StartsAs(s, <<"S", "t", "r", "e", "a", "m", " ">>, FALSE) THEN LeadDigits(Drop(s, 7)) ELSE 0

\* re.findall("(Stream) (\d+)", s): the pairs <<"Stream", digits>>, in order.
RECURSIVE FindStreams(_)
FindStreams(s) ==
    IF Len(s) = 0 THEN <<>>
    ELSE IF StreamAt(s) > 0
    THEN <<<<<<"S", "t", "r", "e", "a", "m">>, SubSeq(s, 8, 7 + StreamAt(s))>>>>
         \o FindStreams(Drop(s, 7 + StreamAt(s)))
    ELSE FindStreams(Tail(s))

\* No match of a PLS pattern.
NoPls == <<FALSE, None, None>>

\* "(PLS:)+ (Root|Gold|Combo)+ (\d+)?" at the start of s, after the k
\* repetitions of "PLS:" and the blank: s is what follows, m the characters
\* the mode names take.
PlsModeAt(s, m) ==
    IF m = 0 \/ Len(s) <= m \/ s[m + 1] # " " THEN NoPls
    ELSE <<TRUE, LastMode(s, m, FALSE),
           SubSeq(s, m + 2, m + 1 + LeadDigits(Drop(s, m + 1)))>>

PlsTagAt(s, k) ==
    IF k = 0 \/ Len(s) <= 4 * k \/ s[4 * k + 1] # " " THEN NoPls
    ELSE PlsModeAt(Drop(s, 4 * k + 1), ModeRepsLen(Drop(s, 4 * k + 1), FALSE))

\* The match of pls_pattern at the start of s: <<matched, mode name, code
\* digits ('' when the optional group took no part)>>.
PlsAt(s) == PlsTagAt(s, Reps(s, <<"P", "L", "S", ":">>, FALSE))

\* re.findall(pls_pattern, s)[0]: the first match from the left; NoPls when
\* findall returns the empty list.
FindPls(s) ==
    IF \E i \in 0..(Len(s) - 1) : PlsAt(Drop(s, i))[1]
    THEN PlsAt(Drop(s, CHOOSE i \in 0..(Len(s) - 1) :
                          /\ PlsAt(Drop(s, i))[1]
                          /\ \A j \in 0..(i - 1) : ~PlsAt(Drop(s, j))[1]))
    ELSE NoPls

(***************************************************************************)
(* Transponders and their validation.                                      *)
(***************************************************************************)
\* eparser.Transponder, a named tuple; the fields in constructor order.
Transponder(freq, sr, pol, fec, sys, mod, pls_mode, pls_code, is_id) ==
    [frequency |-> freq, symbol_rate |-> sr, polarization |-> pol,
     fec_inner |-> fec, system |-> sys, modulation |-> mod,
     pls_mode |-> pls_mode, pls_code |-> pls_code, is_id |-> is_id]

POLARIZATION == {<<"H">>, <<"V">>, <<"L">>, <<"R">>}

FEC == {<<"1", "/", "2">>, <<"2", "/", "3">>, <<"3", "/", "4">>, <<"5", "/", "6">>, <<"7", "/", "8">>, <<"8", "/", "9">>, <<"9", "/", "1", "0">>}

SYSTEM == {<<"D", "V", "B", "-", "S">>, <<"D", "V", "B", "-", "S", "2">>}

\* eparser.is_transponder_valid: frequency and symbol rate parse as strictly
\* positive integers, polarization, fec and system are accepted values.
is_transponder_valid(tr) ==
    /\ IntParses(tr.frequency)
    /\ IntOf(tr.frequency) > 0
    /\ IntParses(tr.symbol_rate)
    /\ IntOf(tr.symbol_rate) > 0
    /\ tr.polarization \in POLARIZATION
    /\ tr.fec_inner \in FEC
    /\ tr.system \in SYSTEM

zeros == <<"0", "0", "0">>

(***************************************************************************)
(* get_transponders_for_fly_sat.  An extractor state st holds the lists    *)
(* the loop works on; exc names the exception a step raised.               *)
(***************************************************************************)
ExtractorState ==
    [trs |-> trs, n_trs |-> n_trs, is_ids |-> is_ids, exc |-> "none"]

\* The row passes every shape check of the loop body (lines 172-187).
fly_shape_ok(r) ==
    /\ Len(r) >= 3
    /\ Len(Split(r[3], " ")) = 2
    /\ Len(Split(r[2], " ")) >= 3
    /\ Len(Split(Split(r[2], " ")[3], "/")) = 2

\* Line 206 on the parts of the row: sr_fec and data are r[2] and r[1] split
\* on blanks, sys_mod is data[2] split on "/", pls the first match of
\* pls_pattern in r[1] (lines 177-197).
fly_transponder(sr_fec, data, sys_mod, pls) ==
    Transponder(data[1] \o zeros, sr_fec[1] \o zeros, data[2], sr_fec[2],
                sys_mod[1],
                IF sys_mod[1] = <<"D", "V", "B", "-", "S">> THEN <<"Q", "P", "S", "K">> ELSE sys_mod[2],
                IF pls[1] THEN pls_modes(pls[2]) ELSE None,
                IF pls[1] THEN pls[3] ELSE None,
                None)

\* The transponder built from a row that passed the shape checks.
fly_candidate(r) ==
    fly_transponder(Split(r[3], " "), Split(r[2], " "),
                    Split(Split(r[2], " ")[3], "/"), FindPls(r[2]))

\* for index, is_id in enumerate(is_ids): tr = tr._replace(is_id=is_id[1]);
\* the valid clones, in order (lines 201-204).
RECURSIVE fly_clones(_, _)
fly_clones(tr, ids) ==
    IF Len(ids) = 0 THEN <<>>
    ELSE (IF is_transponder_valid([tr EXCEPT !.is_id = ids[1][2]])
          THEN <<[tr EXCEPT !.is_id = ids[1][2]]>> ELSE <<>>)
         \o fly_clones([tr EXCEPT !.is_id = ids[1][2]], Tail(ids))

\* The append of line 208 without the validation of line 207.
fly_append_unchecked(st, tr) ==
    [st EXCEPT !.trs = Append(@, tr), !.is_ids = <<>>]

\* Lines 205-208: no stream id is pending.
fly_append(st, tr) ==
    [st EXCEPT !.trs = IF is_transponder_valid(tr) THEN Append(@, tr) ELSE @,
               !.is_ids = <<>>]

\* Lines 199-204 without the is_ids.clear() of line 209.
fly_pop_and_clone_keep_ids(st) ==
    IF Len(st.trs) = 0
    THEN [st EXCEPT !.exc = "IndexError"]
    ELSE [st EXCEPT !.trs = Take(st.trs, Len(st.trs) - 1),
                    !.n_trs = @ \o fly_clones(st.trs[Len(st.trs)], st.is_ids)]

\* Lines 199-204 and 209: stream ids are pending.
fly_pop_and_clone(st) ==
    IF Len(st.trs) = 0
    THEN [st EXCEPT !.exc = "IndexError"]
    ELSE [st EXCEPT !.trs = Take(st.trs, Len(st.trs) - 1),
                    !.n_trs = @ \o fly_clones(st.trs[Len(st.trs)], st.is_ids),
                    !.is_ids = <<>>]

\* Lines 199-209: the row passed the shape checks.
fly_emit(st, r) ==
    IF Len(st.is_ids) > 0 THEN fly_pop_and_clone(st)
    ELSE fly_append(st, fly_candidate(r))

\* One iteration of the loop over self._rows (lines 171-209).
fly_row(st, r) ==
    IF Len(r) = 1
    THEN [st EXCEPT !.is_ids = @ \o FindStreams(r[1])]
    ELSE IF ~fly_shape_ok(r) THEN st
    ELSE fly_emit(st, r)

(***************************************************************************)
(* get_transponders_for_lyng_sat.                                          *)
(***************************************************************************)
NoMatch == <<FALSE, None, None, None, None>>

\* frq_pol_pattern after n leading digits and sp blanks.
frq_pol_at(s, n, sp) ==
    IF n \in {4, 5} /\ sp >= 1 /\ Len(s) > n + sp
       /\ s[n + sp + 1] \in {"R", "L", "H", "V"}
    THEN <<TRUE, Take(s, n), <<s[n + sp + 1]>>>>
    ELSE NoMatch

\* re.match("(\d{4,5})\s+([RLHV]).*", s): <<matched, frequency, polarization>>.
frq_pol_match(s) ==
    frq_pol_at(s, LeadDigits(s), LeadSpaces(Drop(s, LeadDigits(s))))

\* The greedy (.+PSK)? on s: the longest prefix of s, of at most n
\* characters, that ends in PSK after at least one other character; None
\* when the group takes no part.
RECURSIVE psk_prefix(_, _)
psk_prefix(s, n) ==
    IF n < 4 THEN None
    ELSE IF SubSeq(s, n - 2, n) = <<"P", "S", "K">> THEN Take(s, n)
    ELSE psk_prefix(s, n - 1)

\* sr_fec_pattern after n leading digits.
sr_fec_at(s, n) ==
    IF n \in {4, 5} /\ Len(s) >= n + 4 /\ s[n + 1] = "-"
       /\ IsDigit(s[n + 2]) /\ s[n + 3] = "/" /\ IsDigit(s[n + 4])
    THEN <<TRUE, Take(s, n), SubSeq(s, n + 2, n + 4),
           psk_prefix(Drop(s, n + 4), Len(s) - n - 4)>>
    ELSE NoMatch

\* re.match("^(\d{4,5})-(\d/\d)(.+PSK)?(.*)?$", s):
\* <<matched, symbol rate, fec, modulation group>>.
sr_fec_match(s) == sr_fec_at(s, LeadDigits(s))

\* One repetition of (PLS+ (Root|Gold|Combo)+ (\d+)), case ignored:
\* <<characters taken (0: no match), mode name, code>>.  k characters are
\* taken up to the blank before the mode names, m by the mode names, d by
\* the code.
NoGroup == <<0, None, None>>

pls_group_code(s, k, m, d) ==
    IF d = 0 THEN NoGroup
    ELSE <<k + m + 1 + d, LastMode(Drop(s, k), m, TRUE),
           SubSeq(s, k + m + 2, k + m + 1 + d)>>

pls_group_mode(s, k, m) ==
    IF m = 0 \/ Len(s) <= k + m \/ s[k + m + 1] # " " THEN NoGroup
    ELSE pls_group_code(s, k, m, LeadDigits(Drop(s, k + m + 1)))

pls_group_tag(s, k) ==
    IF k = 2 \/ Len(s) <= k \/ s[k + 1] # " " THEN NoGroup
    ELSE pls_group_mode(s, k + 1, ModeRepsLen(Drop(s, k + 1), TRUE))

pls_group(s) ==
    IF StartsAs(s, <<"P", "L">>, TRUE)
    THEN pls_group_tag(s, 2 + Reps(Drop(s, 2), <<"S">>, TRUE))
    ELSE NoGroup

\* The greedy (...)* of pls_group: <<characters taken, mode name and code of
\* the last repetition>>.
RECURSIVE pls_groups(_)
pls_groups_more(g, more) ==
    IF more[1] = 0 THEN g ELSE <<g[1] + more[1], more[2], more[3]>>

pls_groups_from(s, g) ==
    IF g[1] = 0 THEN NoGroup
    ELSE pls_groups_more(g, pls_groups(Drop(s, g[1])))

pls_groups(s) == pls_groups_from(s, pls_group(s))

\* An optional blank.
SkipSpace(s) == IF Len(s) > 0 /\ s[1] = " " THEN Tail(s) ELSE s

\* (multistream stream (\d+))? at the start of s: group 6, None without it.
stream_digits(s, k) == IF k > 0 THEN SubSeq(s, 20, 19 + k) ELSE None

sys_stream(s) ==
    stream_digits(s, IF StartsAs(s, <<"m", "u", "l", "t", "i", "s", "t", "r", "e", "a", "m", " ", "s", "t", "r", "e", "a", "m", " ">>, TRUE)
                     THEN LeadDigits(Drop(s, 19)) ELSE 0)

\* sys_pattern after group 1: s is what follows the system and an optional
\* blank, g the repetitions of the PLS group at its start.
sys_tail(s, g) == <<g[2], g[3], sys_stream(SkipSpace(Drop(s, g[1])))>>

sys_rest(s) == sys_tail(s, pls_groups(s))

\* re.match(sys_pattern, s) with re.IGNORECASE:
\* <<matched, group 1 (system), group 3 (PLS mode), group 4 (PLS code),
\*   group 6 (stream id)>>.
sys_match(s) ==
    IF ~StartsAs(s, <<"D", "V", "B", "-", "S">>, TRUE) THEN NoMatch
    ELSE IF Len(s) > 5 /\ s[6] = "2"
    THEN <<TRUE, Take(s, 6)>> \o sys_rest(SkipSpace(Drop(s, 6)))
    ELSE <<TRUE, Take(s, 5)>> \o sys_rest(SkipSpace(Drop(s, 5)))

\* The first of r[1], r[2], r[3] that matches frq_pol_pattern (lines 222-225).
lyng_freq(r) ==
    IF frq_pol_match(r[2])[1] THEN frq_pol_match(r[2])
    ELSE IF frq_pol_match(r[3])[1] THEN frq_pol_match(r[3])
    ELSE frq_pol_match(r[4])

\* Line 245 on the three matches of the row (lines 228-243).
lyng_transponder(freq, sr_fec, res) ==
    Transponder(freq[2] \o zeros, sr_fec[2] \o zeros, freq[3], sr_fec[3],
                res[2],
                IF sr_fec[4] # None THEN Strip(sr_fec[4]) ELSE <<"A", "u", "t", "o">>,
                IF res[3] # None THEN pls_modes(Capitalize(res[3])) ELSE None,
                res[4], res[5])

\* Lines 226-247 on the three matches of the row.
lyng_matched(st, freq, sr_fec, res) ==
    IF ~freq[1] \/ ~sr_fec[1] \/ ~res[1] THEN st
    ELSE IF is_transponder_valid(lyng_transponder(freq, sr_fec, res))
    THEN [st EXCEPT !.trs = Append(@, lyng_transponder(freq, sr_fec, res))]
    ELSE st

\* One iteration of the loop over the rows (lines 221-247); the filter of
\* line 221 keeps the rows of more than 8 cells.
lyng_row(st, r) ==
    IF Len(r) <= 8 THEN st
    ELSE lyng_matched(st, lyng_freq(r), sr_fec_match(r[Len(r) - 2]),
                      sys_match(r[Len(r) - 3]))

(***************************************************************************)
(* sorted(trs, key=lambda x: int(x.frequency)): a stable sort.             *)
(***************************************************************************)
RECURSIVE insert_sorted(_, _)
insert_sorted(s, t) ==
    IF Len(s) = 0 THEN <<t>>
    ELSE IF IntOf(s[Len(s)].frequency) <= IntOf(t.frequency) THEN Append(s, t)
    ELSE Append(insert_sorted(Take(s, Len(s) - 1), t), s[Len(s)])

\* The list in the order the extractor left it.
extraction_order(s) == s

RECURSIVE sort_by_frequency(_)
sort_by_frequency(s) ==
    IF Len(s) = 0 THEN <<>>
    ELSE insert_sorted(sort_by_frequency(Take(s, Len(s) - 1)), s[Len(s)])

(***************************************************************************)
(* The satellite-list adapters of get_satellites_list and get_satellite.   *)
(***************************************************************************)
\* parse_position(pos_str): digits, letters and the decimal point kept.
parse_position(pos_str) ==
    SelectSeq(pos_str, LAMBDA c : IsDigit(c) \/ IsAlpha(c) \/ c = ".")

\* pos.replace(".", "")
remove_dots(pos) == SelectSeq(pos, LAMBDA c : c # ".")

\* get_position(pos): pos[-1] raises IndexError on the empty string, which
\* is returned here as the value IndexError.
IndexError == <<"IndexError">>

get_position(pos) ==
    IF Len(pos) = 0 THEN IndexError
    ELSE (IF pos[Len(pos)] = "W" THEN <<"-">> ELSE Empty) \o Take(pos, Len(pos) - 1)

\* A satellite tuple (name, position, category, detail url, flag).
SatTuple(name, pos, cat, url) == <<name, pos, cat, url, FALSE>>

\* all(x): no cell of the row is the empty string.
all_cells(x) == \A i \in 1..Len(x) : x[i] # Empty

\* len(x) == 5 alone, without all(x).
five_cells(x) == Len(x) = 5

\* Provider A (line 96-99): the rows of 5 non-empty cells, mapped by get_sat.
fly_sat_keep(x) == all_cells(x) /\ Len(x) = 5

get_sat(r) == SatTuple(r[2], parse_position(r[3]), r[4], r[1])

RECURSIVE fly_sat_list(_)
fly_sat_list(rs) ==
    IF Len(rs) = 0 THEN <<>>
    ELSE (IF fly_sat_keep(rs[1]) THEN <<get_sat(rs[1])>> ELSE <<>>)
         \o fly_sat_list(Tail(rs))

base_url == <<"h", "t", "t", "p", "s", ":", "/", "/", "w", "w", "w", ".", "l", "y", "n", "g", "s", "a", "t", ".", "c", "o", "m", "/">>

\* s.rsplit("/")[-1]: what follows the last "/".
last_segment(s) == Split(s, "/")[Len(Split(s, "/"))]

\* s.rstrip(".html"): trailing characters of the set {., h, t, m, l} removed.
RECURSIVE rstrip_html(_)
rstrip_html(s) ==
    IF Len(s) > 0 /\ s[Len(s)] \in {".", "h", "t", "m", "l"}
    THEN rstrip_html(Take(s, Len(s) - 1))
    ELSE s

\* s.replace("-", " ")
dash_to_space(s) == [i \in 1..Len(s) |-> IF s[i] = "-" THEN " " ELSE s[i]]

\* name = url.rsplit("/")[-1].rstrip(".html").replace("-", " ") (109, 124)
url_name(url) == dash_to_space(rstrip_html(last_segment(url)))

\* \w or "-" of extra_pattern.
IsWordChar(c) == IsDigit(c) \/ IsAlpha(c) \/ c = "_" \/ c = "-"

RECURSIVE LeadWord(_)
LeadWord(s) ==
    IF Len(s) > 0 /\ IsWordChar(s[1]) THEN 1 + LeadWord(Tail(s)) ELSE 0

\* extra_pattern after the site prefix and n word characters.
extra_at(d, n) ==
    IF n > 0 /\ StartsAs(Drop(d, Len(base_url) + n), <<".", "h", "t", "m", "l">>, FALSE)
    THEN Take(d, Len(base_url) + n + 5)
    ELSE None

\* re.match("^https://www\.lyngsat\.com/[\w-]+\.html", d): group(0), None
\* without a match.
extra_match(d) ==
    IF StartsAs(d, base_url, FALSE)
    THEN extra_at(d, LeadWord(Drop(d, Len(base_url))))
    ELSE None

\* list(filter(None, row)): the non-empty cells.
non_empty(row) == SelectSeq(row, LAMBDA c : c # Empty)

\* urls: the set of the matches of extra_pattern among data (lines 114-119).
extra_urls(data) ==
    {extra_match(data[i]) : i \in {j \in 1..Len(data) : extra_match(data[j]) # None}}

\* sat_type: the last cell of data among C, Ku, CKu, '' without one.
RECURSIVE sat_type_of(_)
sat_type_of(data) ==
    IF Len(data) = 0 THEN Empty
    ELSE IF data[Len(data)] \in {<<"C">>, <<"K", "u">>, <<"C", "K", "u">>} THEN data[Len(data)]
    ELSE sat_type_of(Take(data, Len(data) - 1))

\* The tuples a width-8 row appends, the urls taken in the order order.
extra_sats(order, pos, sat_type) ==
    [i \in 1..Len(order) |->
        SatTuple(url_name(order[i]), pos, sat_type, base_url \o order[i])]

\* All the orders in which the elements of the set S can be iterated.
Orders(S) ==
    {o \in [1..Cardinality(S) -> S] : \A x \in S : \E i \in 1..Cardinality(S) : o[i] = x}

\* An adapter state a holds sats and current_pos; exc names an exception.
AdapterState == [sats |-> sats, current_pos |-> current_pos, exc |-> "none"]

\* Width 7 with the append of line 110 only.
lyng_sat_7_group_only(a, row) ==
    [a EXCEPT !.current_pos = parse_position(row[3]),
              !.sats = Append(@, SatTuple(url_name(row[2]), parse_position(row[3]),
                                          row[6], base_url \o row[2]))]

\* Width 7 (lines 107-111).
lyng_sat_7(a, row) ==
    [a EXCEPT !.current_pos = parse_position(row[3]),
              !.sats = @ \o <<SatTuple(url_name(row[2]), parse_position(row[3]),
                                       row[6], base_url \o row[2]),
                              SatTuple(row[5], parse_position(row[3]),
                                       row[6], base_url \o row[4])>>]

\* Width 8 (lines 112-125) on data, the non-empty cells; order is the
\* order in which the set urls is iterated.
lyng_sat_8(a, data, order) ==
    IF Len(data) < 2 THEN [a EXCEPT !.exc = "IndexError"]
    ELSE [a EXCEPT !.current_pos = parse_position(data[2]),
                   !.sats = @ \o extra_sats(order, parse_position(data[2]),
                                            sat_type_of(data))]

\* Width 5 with the initial position of line 104 in place of current_pos.
lyng_sat_5_initial_pos(a, row) ==
    [a EXCEPT !.sats = Append(@, SatTuple(row[3], <<"0">>, row[4],
                                          base_url \o row[2]))]

\* Width 5 (lines 126-127).
lyng_sat_5(a, row) ==
    [a EXCEPT !.sats = Append(@, SatTuple(row[3], a.current_pos, row[4],
                                          base_url \o row[2]))]

\* One iteration of the loop of line 105; the filter keeps the rows of 5, 7
\* or 8 cells.
lyng_sat_row(a, row, order) ==
    IF Len(row) = 7 THEN lyng_sat_7(a, row)
    ELSE IF Len(row) = 8 THEN lyng_sat_8(a, non_empty(row), order)
    ELSE IF Len(row) = 5 THEN lyng_sat_5(a, row)
    ELSE a

\* The (name, position) of the Satellite get_satellite builds before it
\* calls get_transponders (lines 131-134); position is IndexError when
\* get_position raises.
satellite_name(s) == s[2] \o <<" ">> \o s[1]

satellite_position(s) == get_position(remove_dots(s[2]))

(***************************************************************************)
(* Documents and responses.  A document is the sequence of tag/text events *)
(* HTMLParser makes of request.text; a response is its reason (or the      *)
(* exception requests.get raises) and its document.                        *)
(***************************************************************************)
SeqsUpTo(S, n) == UNION {[1..k -> S] : k \in 0..n}

RECURSIVE Flatten(_)
Flatten(ss) == IF Len(ss) = 0 THEN <<>> ELSE ss[1] \o Flatten(Tail(ss))

\* <td>text</td>
CellDoc(c) ==
    <<StartEv("td", <<>>)>> \o (IF c = Empty THEN <<>> ELSE <<DataEv(c)>>)
    \o <<EndEv("td")>>

\* <tr> cells </tr>
RowDoc(r) ==
    <<StartEv("tr", <<>>)>> \o Flatten([i \in 1..Len(r) |-> CellDoc(r[i])])
    \o <<EndEv("tr")>>

\* The document of a table with the rows rs.
RowsDoc(rs) == Flatten([i \in 1..Len(rs) |-> RowDoc(rs[i])])

Sources == {"FLYSAT", "LYNGSAT"}

\* SatelliteSource.get_sources(src): the number of source URLs (lines 16-18).
NumSources(src) == IF src = "FLYSAT" THEN 1 ELSE 4

\* request.reason of a response, or the exception requests.get raises.
Outcomes == {"OK", "Not Found", "ConnectionError"}

Page(o, doc) == [outcome |-> o, doc |-> doc]

\* Rows of a Provider A detail page.
FlyMarker12 == <<<<"S", "t", "r", "e", "a", "m", " ", "1", " ", "S", "t", "r", "e", "a", "m", " ", "2">>>>

FlyA == <<<<"n">>, <<"1", "1", "0", "0", "0", " ", "H", " ", "D", "V", "B", "-", "S", "2", "/", "8", "P", "S", "K">>, <<"2", "7", "5", "0", "0", " ", "3", "/", "4">>>>

FlyB == <<<<"n">>, <<"3", "8", "0", "0", " ", "V", " ", "D", "V", "B", "-", "S", "/", "x">>, <<"3", "0", "0", "0", "0", " ", "5", "/", "6">>>>

FlyPls == <<<<"n">>, <<"1", "0", "7", "0", "0", " ", "H", " ", "D", "V", "B", "-", "S", "2", "/", "8", "P", "S", "K", " ", "P", "L", "S", ":", " ", "G", "o", "l", "d", " ", "8">>, <<"2", "7", "5", "0", "0", " ", "3", "/", "4">>>>

FlyZero == <<<<"n">>, <<"1", "2", "0", "0", "0", " ", "V", " ", "D", "V", "B", "-", "S", "2", "/", "8", "P", "S", "K">>, <<"0", " ", "3", "/", "4">>>>

FlyShort == <<<<"n">>, <<"x">>>>

FlyBadShape == <<<<"n">>, <<"1", "1", "0", "0", "0", " ", "H", " ", "D", "V", "B", "-", "S", "2", "/", "8", "P", "S", "K">>, <<"2", "7", "5", "0", "0">>>>

FlyPool == {FlyMarker12, FlyA, FlyB, FlyPls, FlyZero, FlyShort, FlyBadShape}

\* Rows of a Provider B detail page: 9 cells, the system in r[-4], symbol
\* rate and fec in r[-3].
LyngRow9(frq, sys, sr_fec) ==
    <<Empty, frq, Empty, Empty, Empty, sys, sr_fec, Empty, Empty>>

LyngA == LyngRow9(<<"1", "1", "0", "0", "0", " ", "H">>, <<"D", "V", "B", "-", "S", "2">>, <<"2", "7", "5", "0", "0", "-", "3", "/", "4", " ", "8", "P", "S", "K">>)

LyngB == LyngRow9(<<"3", "8", "0", "0", " ", "V">>, <<"D", "V", "B", "-", "S">>, <<"3", "0", "0", "0", "0", "-", "5", "/", "6">>)

LyngPls ==
    LyngRow9(<<"1", "0", "7", "0", "0", " ", "H">>, <<"D", "V", "B", "-", "S", "2", " ", "P", "L", "S", " ", "G", "o", "l", "d", " ", "1", "3", "0", "1", "4", "1", " ", "m", "u", "l", "t", "i", "s", "t", "r", "e", "a", "m", " ", "s", "t", "r", "e", "a", "m", " ", "3">>,
             <<"2", "7", "5", "0", "0", "-", "3", "/", "4">>)

LyngZero == LyngRow9(<<"1", "2", "0", "0", "0", " ", "V">>, <<"D", "V", "B", "-", "S", "2">>, <<"0", "0", "0", "0", "-", "3", "/", "4">>)

LyngNoFreq == LyngRow9(<<"x">>, <<"D", "V", "B", "-", "S", "2">>, <<"2", "7", "5", "0", "0", "-", "3", "/", "4">>)

LyngShort == <<Empty, <<"1", "1", "0", "0", "0", " ", "H">>, <<"D", "V", "B", "-", "S", "2">>, <<"2", "7", "5", "0", "0", "-", "3", "/", "4">>, Empty>>

LyngPool == {LyngA, LyngB, LyngPls, LyngZero, LyngNoFreq, LyngShort}

\* The responses a detail-page request can get.
DetailPages(src) ==
    {Page("OK", RowsDoc(rs)) :
        rs \in SeqsUpTo(IF src = "FLYSAT" THEN FlyPool ELSE LyngPool, MaxRows)}
    \cup {Page(o, <<>>) : o \in Outcomes \ {"OK"}}

\* Rows of a Provider A satellite-list page.
FlyListE == <<<<"a", ".", "p", "h", "p">>, <<"A">>, <<"1", "3", ".", "0", "°", "E">>, <<"K", "u">>, <<"x">>>>

FlyListW == <<<<"b", ".", "p", "h", "p">>, <<"B">>, <<" ", "1", ".", "0", " ", "W">>, <<"C">>, <<"x">>>>

FlyListGap == <<<<"c", ".", "p", "h", "p">>, Empty, <<"5", ".", "0", "°", "E">>, <<"K", "u">>, <<"x">>>>

FlyListShort == <<<<"d", ".", "p", "h", "p">>, <<"D">>, <<"7", ".", "0", "°", "E">>, <<"K", "u">>>>

FlyListPool == {FlyListE, FlyListW, FlyListGap, FlyListShort}

\* Rows of a Provider B satellite-list page.
Lyng7 == <<Empty, <<"p", "/", "G", "-", "1", ".", "h", "t", "m", "l">>, <<"1", "9", ".", "2", "°", "E">>, <<"h", ".", "h", "t", "m", "l">>, <<"H">>, <<"K", "u">>, <<"x">>>>

Lyng7W == <<Empty, <<"p", "/", "J", ".", "h", "t", "m", "l">>, <<"1", ".", "0", "°", "W">>, <<"k", ".", "h", "t", "m", "l">>, <<"K">>, <<"C">>, <<"x">>>>

Lyng8 ==
    <<<<"i">>, <<"5", ".", "0", "°", "W">>, <<"h", "t", "t", "p", "s", ":", "/", "/", "w", "w", "w", ".", "l", "y", "n", "g", "s", "a", "t", ".", "c", "o", "m", "/", "M", ".", "h", "t", "m", "l">>, <<"n">>,
      <<"h", "t", "t", "p", "s", ":", "/", "/", "w", "w", "w", ".", "l", "y", "n", "g", "s", "a", "t", ".", "c", "o", "m", "/", "N", ".", "h", "t", "m", "l">>, <<"n">>, <<"C", "K", "u">>, <<"z">>>>

Lyng8Bare == <<Empty, Empty, Empty, <<"5", ".", "0", "°", "W">>, Empty, Empty, Empty, Empty>>

Lyng5 == <<Empty, <<"q", ".", "h", "t", "m", "l">>, <<"Q">>, <<"K", "u">>, <<"x">>>>

Lyng3 == <<<<"x">>, <<"y">>, <<"z">>>>

LyngListPool == {Lyng7, Lyng7W, Lyng8, Lyng8Bare, Lyng5, Lyng3}

\* The responses to the source URLs of a satellite-list request.  Provider
\* A has one URL.  Provider B has four: either every page answers OK and
\* the rows stand on the first two pages, or every page holds the same
\* one-row table and answers in any way.
ListPages(src) ==
    IF src = "FLYSAT"
    THEN {<<Page("OK", RowsDoc(rs))>> : rs \in SeqsUpTo(FlyListPool, MaxListRows)}
         \cup {<<Page(o, <<>>)>> : o \in Outcomes \ {"OK"}}
    ELSE {<<Page("OK", RowsDoc(Take(rs, IF k <= Len(rs) THEN k ELSE 0))),
            Page("OK", RowsDoc(Drop(rs, IF k <= Len(rs) THEN k ELSE 0))),
            Page("OK", <<>>), Page("OK", <<>>)>> :
             rs \in SeqsUpTo(LyngListPool, MaxListRows), k \in {0, 1}}
         \cup {[i \in 1..4 |-> Page(o[i], RowsDoc(<<Lyng5>>))] :
                 o \in [1..4 -> Outcomes]}

\* The responses get_satellite's detail-page request gets in SpecList.
FewDetailPages(src) ==
    {Page("OK", RowsDoc(<<IF src = "FLYSAT" THEN FlyA ELSE LyngA>>)),
     Page("Not Found", <<>>), Page("ConnectionError", <<>>)}

\* Documents of the orchestration: a list row, a detail row, a row left
\* open after its first cell, a cell left open.
OpenRowDoc == <<StartEv("tr", <<>>)>> \o CellDoc(<<"x">>)

OpenCellDoc == <<StartEv("tr", <<>>), StartEv("td", <<>>), DataEv(<<"y">>)>>

OrchDocs == {RowsDoc(<<FlyListE>>), RowsDoc(<<FlyA>>), OpenRowDoc, OpenCellDoc}

OrchPage == {Page("OK", d) : d \in OrchDocs} \cup {Page("Not Found", <<>>)}

OrchListPages(src) ==
    IF src = "FLYSAT" THEN {<<p>> : p \in OrchPage}
    ELSE {<<p, q, Page("Not Found", <<>>), Page("OK", <<>>)>> :
             p \in OrchPage, q \in {Page("OK", RowsDoc(<<FlyListE>>)),
                                    Page("ConnectionError", <<>>)}}

(***************************************************************************)
(* The calls, one step per fetch and per loop iteration.                   *)
(***************************************************************************)
SetExtractor(st) ==
    /\ trs' = st.trs
    /\ n_trs' = st.n_trs
    /\ is_ids' = st.is_ids

\* The caller may make the next call: no call runs and none has raised.
Idle == pc \in {"idle", "gl_done", "gt_done", "gs_done"}

\* get_satellites_list(src) is called: lines 77-79.  reset() is
\* HTMLParser's: it clears the library's own buffers, none of the fields
\* of SatellitesParser.
GL_Call ==
    /\ Idle
    /\ calls < MaxCalls
    /\ \E src \in Sources : \E pgs \in OrchListPages(src) :
          /\ source' = src
          /\ pages' = pgs
    /\ rows' = <<>>
    /\ pc' = "gl_fetch"
    /\ page_no' = 1
    /\ fed' = <<>>
    /\ calls' = calls + 1
    /\ result' = None
    /\ sat' = None
    /\ UNCHANGED <<dlgVars, is_td, is_th, current_row, current_cell, raised, events,
                   idx, trs, n_trs, is_ids, sats, current_pos>>

\* A loop that goes on to the next URL after a connection failure.
next_url_after_failure(outcome, exc) ==
    IF exc # "none" THEN "raised" ELSE "gl_fetch"

\* Where the loop over the source URLs goes after a request (lines 82-92):
\* ConnectionError is caught and the function returns; an exception of
\* feed leaves the function; otherwise the loop goes on.
after_request(outcome, exc) ==
    IF outcome = "ConnectionError" THEN "gl_done"
    ELSE IF exc # "none" THEN "raised"
    ELSE "gl_fetch"

\* One iteration of the loop over the source URLs (lines 81-92).
GL_FetchPage ==
    /\ pc = "gl_fetch"
    /\ page_no <= NumSources(source)
    /\ LET page == pages[page_no]
           p == IF page.outcome = "OK" THEN feed(Parser, page.doc) ELSE Parser
       IN  /\ SetParser(p)
           /\ raised' = p.exc
           /\ pc' = after_request(page.outcome, p.exc)
           /\ result' = IF page.outcome = "ConnectionError" THEN <<>> ELSE result
           /\ fed' = IF page.outcome = "OK" THEN Append(fed, page.doc) ELSE fed
    /\ page_no' = page_no + 1
    /\ UNCHANGED <<dlgVars, source, events, pages, idx, trs, n_trs, is_ids, sats,
                   current_pos, calls, sat>>

\* After the loop (lines 94-104): without rows the function ends without a
\* return statement; Provider A maps the rows; Provider B starts its loop.
GL_Adapt ==
    /\ pc = "gl_fetch"
    /\ page_no > NumSources(source)
    /\ pc' = IF rows # <<>> /\ source = "LYNGSAT" THEN "gl_lyng" ELSE "gl_done"
    /\ result' = IF rows # <<>> /\ source = "FLYSAT" THEN fly_sat_list(rows)
                 ELSE None
    /\ sats' = <<>>
    /\ current_pos' = <<"0">>
    /\ idx' = 1
    /\ UNCHANGED <<dlgVars, tokVars, source, raised, events, pages, page_no, trs,
                   n_trs, is_ids, fed, calls, sat>>

\* One iteration of the Provider B loop over the rows (lines 105-127); the
\* set urls of a width-8 row is iterated in any order.
GL_LyngRow ==
    /\ pc = "gl_lyng"
    /\ idx <= Len(rows)
    /\ \E order \in Orders(IF Len(rows[idx]) = 8
                           THEN extra_urls(non_empty(rows[idx])) ELSE {}) :
          LET a == lyng_sat_row(AdapterState, rows[idx], order)
          IN  /\ sats' = a.sats
              /\ current_pos' = a.current_pos
              /\ raised' = a.exc
              /\ pc' = IF a.exc # "none" THEN "raised" ELSE pc
    /\ idx' = idx + 1
    /\ UNCHANGED <<dlgVars, tokVars, source, result, events, pages, page_no, trs,
                   n_trs, is_ids, fed, calls, sat>>

\* return sats (line 128).
GL_LyngReturn ==
    /\ pc = "gl_lyng"
    /\ idx > Len(rows)
    /\ result' = sats
    /\ pc' = "gl_done"
    /\ UNCHANGED <<dlgVars, tokVars, source, raised, events, pages, page_no, idx, trs,
                   n_trs, is_ids, sats, current_pos, fed, calls, sat>>

\* get_transponders(sat_url) is called by the caller of the parser.
GT_Call ==
    /\ Idle
    /\ calls < MaxCalls
    /\ \E pg \in OrchPage \cup {Page("ConnectionError", <<>>)} : pages' = <<pg>>
    /\ pc' = "gt_start"
    /\ calls' = calls + 1
    /\ result' = None
    /\ sat' = None
    /\ fed' = <<>>
    /\ UNCHANGED <<dlgVars, tokVars, source, raised, events, page_no, idx, trs, n_trs,
                   is_ids, sats, current_pos>>

\* get_transponders up to the call of the extractor (lines 147-157).
GT_Fetch ==
    /\ pc = "gt_start"
    /\ LET page == pages[1]
           p == IF page.outcome = "OK"
                THEN feed([Parser EXCEPT !.rows = <<>>], page.doc)
                ELSE [Parser EXCEPT !.rows = <<>>]
       IN  /\ SetParser(p)
           /\ raised' = IF page.outcome = "ConnectionError"
                        THEN "ConnectionError" ELSE p.exc
           /\ pc' = IF page.outcome = "ConnectionError" \/ p.exc # "none"
                    THEN "raised"
                    ELSE IF page.outcome # "OK" \/ p.rows = <<>> THEN "gt_sort"
                    ELSE IF source = "FLYSAT" THEN "fly_loop"
                    ELSE "lyng_loop"
           /\ fed' = IF page.outcome = "OK" THEN <<page.doc>> ELSE <<>>
    /\ trs' = <<>>
    /\ n_trs' = <<>>
    /\ is_ids' = <<>>
    /\ idx' = 1
    /\ UNCHANGED <<dlgVars, source, result, events, pages, page_no, sats, current_pos,
                   calls, sat>>

\* One iteration of the Provider A loop (lines 171-209).
FlyRow ==
    /\ pc = "fly_loop"
    /\ idx <= Len(rows)
    /\ LET st == fly_row(ExtractorState, rows[idx])
       IN  /\ SetExtractor(st)
           /\ raised' = st.exc
           /\ pc' = IF st.exc # "none" THEN "raised" ELSE pc
    /\ idx' = idx + 1
    /\ UNCHANGED <<dlgVars, tokVars, source, result, events, pages, page_no, sats,
                   current_pos, fed, calls, sat>>

\* After the Provider A loop: trs.extend(n_trs) (line 210).
FlyEnd ==
    /\ pc = "fly_loop"
    /\ idx > Len(rows)
    /\ trs' = trs \o n_trs
    /\ pc' = "gt_sort"
    /\ UNCHANGED <<dlgVars, tokVars, source, raised, result, events, pages, page_no,
                   idx, n_trs, is_ids, sats, current_pos, fed, calls, sat>>

\* One iteration of the Provider B loop (lines 221-247); the extractor
\* returns to get_transponders after the last row.
LyngRow ==
    /\ pc = "lyng_loop"
    /\ idx <= Len(rows)
    /\ SetExtractor(lyng_row(ExtractorState, rows[idx]))
    /\ idx' = idx + 1
    /\ pc' = IF idx = Len(rows) THEN "gt_sort" ELSE pc
    /\ UNCHANGED <<dlgVars, tokVars, source, raised, result, events, pages, page_no,
                   sats, current_pos, fed, calls, sat>>

\* return sorted(trs, key=lambda x: int(x.frequency)) (line 159); int()
\* raises ValueError on a frequency that is no integer.  Inside
\* get_satellite the value goes to the Satellite being built.
GT_Return ==
    /\ pc = "gt_sort"
    /\ IF \E i \in 1..Len(trs) : ~IntParses(trs[i].frequency)
       THEN /\ raised' = "ValueError"
            /\ pc' = "raised"
            /\ result' = result
       ELSE /\ raised' = raised
            /\ pc' = IF sat = None THEN "gt_done" ELSE "gs_build"
            /\ result' = sort_by_frequency(trs)
    /\ UNCHANGED <<dlgVars, tokVars, source, events, pages, page_no, idx, trs, n_trs,
                   is_ids, sats, current_pos, fed, calls, sat>>

\* The satellite tuples the last call returned, if it returned a list of
\* them.
ReturnedSats ==
    IF pc = "gl_done" /\ result # None
    THEN {result[i] : i \in 1..Len(result)} ELSE {}

\* get_satellite(sat) is called with a tuple of the list (lines 131-134):
\* name and position are built, then get_transponders is called.
GS_Call ==
    /\ pc = "gl_done"
    /\ calls < MaxCalls
    /\ \E s \in ReturnedSats : \E pg \in FewDetailPages(source) :
          /\ sat' = s
          /\ pages' = <<pg>>
          /\ raised' = IF satellite_position(s) = IndexError
                       THEN "IndexError" ELSE raised
          /\ pc' = IF satellite_position(s) = IndexError
                   THEN "raised" ELSE "gt_start"
    /\ calls' = calls + 1
    /\ result' = None
    /\ UNCHANGED <<dlgVars, tokVars, source, events, page_no, idx, trs, n_trs, is_ids,
                   sats, current_pos, fed>>

\* Satellite(name=..., flags="0", position=..., transponders=...) is
\* returned (lines 132-135).
GS_Return ==
    /\ pc = "gs_build"
    /\ result' = [name |-> satellite_name(sat), flags |-> <<"0">>,
                  position |-> satellite_position(sat), transponders |-> result]
    /\ pc' = "gs_done"
    /\ UNCHANGED <<dlgVars, tokVars, source, raised, events, pages, page_no, idx, trs,
                   n_trs, is_ids, sats, current_pos, fed, calls, sat>>

(***************************************************************************)
(* Specification SpecTr: one get_transponders call on a new parser, the    *)
(* response and the rows of the detail page drawn from small sets.         *)
(***************************************************************************)
InitLocals ==
    /\ result = None
    /\ raised = "none"
    /\ events = <<>>
    /\ page_no = 1
    /\ idx = 1
    /\ trs = <<>>
    /\ n_trs = <<>>
    /\ is_ids = <<>>
    /\ sats = <<>>
    /\ current_pos = <<"0">>
    /\ fed = <<>>
    /\ sat = None

TrInit ==
    /\ InitParser
    /\ InitLocals
    /\ NoDialog
    /\ source \in Sources
    /\ pages \in {<<p>> : p \in DetailPages(source)}
    /\ pc = "gt_start"
    /\ calls = 1

TrNext == GT_Fetch \/ FlyRow \/ FlyEnd \/ LyngRow \/ GT_Return

SpecTr == TrInit /\ [][TrNext]_vars

(***************************************************************************)
(* Specification SpecList: one get_satellites_list call on a new parser,   *)
(* then get_satellite on a tuple of the list it returned.                  *)
(***************************************************************************)
ListInit ==
    /\ InitParser
    /\ InitLocals
    /\ NoDialog
    /\ source \in Sources
    /\ pages \in ListPages(source)
    /\ pc = "gl_fetch"
    /\ calls = MaxCalls - 1

ListNext ==
    \/ GL_FetchPage \/ GL_Adapt \/ GL_LyngRow \/ GL_LyngReturn
    \/ GS_Call \/ GT_Fetch \/ FlyRow \/ FlyEnd \/ LyngRow \/ GT_Return
    \/ GS_Return

SpecList == ListInit /\ [][ListNext]_vars

(***************************************************************************)
(* Specification SpecOrch: a caller makes up to MaxCalls calls on one      *)
(* parser instance.                                                        *)
(***************************************************************************)
OrchInit ==
    /\ InitParser
    /\ InitLocals
    /\ NoDialog
    /\ source = "FLYSAT"
    /\ pages = <<>>
    /\ pc = "idle"
    /\ calls = 0

OrchNext ==
    \/ GL_Call \/ GT_Call \/ GS_Call
    \/ GL_FetchPage \/ GL_Adapt \/ GL_LyngRow \/ GL_LyngReturn
    \/ GT_Fetch \/ FlyRow \/ FlyEnd \/ LyngRow \/ GT_Return \/ GS_Return

SpecOrch == OrchInit /\ [][OrchNext]_vars

(***************************************************************************)
(* Claims on get_transponders (specification SpecTr).                      *)
(***************************************************************************)
\* The call has ended: it returned or an exception left it.
TrFinished == pc \in {"gt_done", "raised"}

\* r is a Provider A data row that passes the shape checks and validation.
FlyValidRow(r) == fly_shape_ok(r) /\ is_transponder_valid(fly_candidate(r))

\* The page is a Provider A page that ends with the stream-marker row
\* "Stream 1 Stream 2" and one valid data row; no other marker row and no
\* copy of that data row precede them.
MarkerThenDataRow ==
    /\ source = "FLYSAT"
    /\ pages[1].outcome = "OK"
    /\ LET rs == rows
       IN  /\ Len(rs) >= 2
           /\ rs[Len(rs) - 1] = FlyMarker12
           /\ FlyValidRow(rs[Len(rs)])
           /\ \A i \in 1..(Len(rs) - 2) : Len(rs[i]) # 1 /\ rs[i] # rs[Len(rs)]

\* The transponders of out built from the fields of the data row r.
FromRow(out, r) ==
    SelectSeq(out, LAMBDA t : [t EXCEPT !.is_id = None] = fly_candidate(r))

\* C1: a marker row "Stream 1 Stream 2" followed by one valid data row
\* yields exactly two transponders of that data row, with stream ids "1"
\* and "2", and none without stream id, whatever rows precede the marker.
C1_StreamPairFromDataRow ==
    (TrFinished /\ MarkerThenDataRow) =>
        /\ raised = "none"
        /\ Len(FromRow(result, rows[Len(rows)])) = 2
        /\ FromRow(result, rows[Len(rows)])[1].is_id = <<"1">>
        /\ FromRow(result, rows[Len(rows)])[2].is_id = <<"2">>

\* C2: the sequence get_transponders returns is sorted by ascending integer
\* frequency.
C2_OutputSortedByFrequency ==
    pc = "gt_done" =>
        \A i \in 1..(Len(result) - 1) :
            IntOf(result[i].frequency) <= IntOf(result[i + 1].frequency)

\* C2 witness: a call returned stream clones that were appended after a
\* plain record of higher frequency and sorted before it.
C2_Witness ==
    /\ pc = "gt_done"
    /\ result # trs
    /\ Len(result) >= 3
    /\ result[1].is_id # None
    /\ result[Len(result)].is_id = None

\* C3: no transponder whose symbol rate parses to 0 is in the output.
C3_NoZeroSymbolRate ==
    pc = "gt_done" =>
        \A i \in 1..Len(result) :
            ~(IntParses(result[i].symbol_rate)
              /\ IntOf(result[i].symbol_rate) = 0)

\* C3 witness: a page with a row of symbol rate 0 was extracted and the
\* call returned some other transponder.
C3_Witness ==
    /\ pc = "gt_done"
    /\ Len(result) > 0
    /\ \E i \in 1..Len(rows) : rows[i] \in {FlyZero, LyngZero}

\* C5: a connection failure of the detail-page request does not leave
\* get_transponders as an exception; the call returns zero transponders.
C5_FetchFailureYieldsNoTransponders ==
    (pages[1].outcome = "ConnectionError" /\ pc # "gt_start") =>
        /\ raised = "none"
        /\ pc = "gt_done" => result = <<>>

(***************************************************************************)
(* Claims on get_satellites_list and get_satellite (specification          *)
(* SpecList).                                                              *)
(***************************************************************************)
\* The request of the first source URL of the list call failed.
FirstFetchFailed ==
    sat = None /\ page_no > 1 /\ pages[1].outcome = "ConnectionError"

\* C4: a connection failure on the first source URL makes
\* get_satellites_list return the empty list without an exception; no
\* further URL is fetched, no document is fed and no adapter runs.
C4_FirstFetchFailureYieldsEmptyList ==
    FirstFetchFailed =>
        /\ pc = "gl_done"
        /\ result = <<>>
        /\ raised = "none"
        /\ page_no = 2
        /\ fed = <<>>
        /\ sats = <<>>

\* C4 witness: the first of the four Provider B requests failed and the
\* call has returned.
C4_Witness ==
    /\ FirstFetchFailed
    /\ source = "LYNGSAT"
    /\ pc = "gl_done"
    /\ \E i \in 2..4 : pages[i].outcome = "OK"

\* t is a satellite tuple: five fields, the last the flag.
IsSatTuple(t) == Len(t) = 5 /\ t[5] \in BOOLEAN

\* C6: get_satellites_list always returns a list of 5-tuples, never a
\* missing value and never an exception, whatever the pages answer and
\* hold.
C6_ListIsAlwaysASequence ==
    sat = None =>
        /\ pc # "raised"
        /\ pc = "gl_done" =>
              /\ result # None
              /\ \A i \in 1..Len(result) : IsSatTuple(result[i])

\* int(s) succeeds on s: an optional "-" and then digits.
SignedIntParses(s) ==
    s # IndexError
    /\ IF Len(s) > 0 /\ s[1] = "-" THEN IntParses(Tail(s)) ELSE IntParses(s)

\* C10: the position get_satellite builds from a tuple of the list parses
\* as a signed integer, also for a Provider B width-5 row that precedes
\* every width-7/8 row.
C10_PositionIsSignedInteger ==
    /\ sat # None => SignedIntParses(satellite_position(sat))
    /\ pc = "gs_done" => SignedIntParses(result.position)

(***************************************************************************)
(* Claim on calls in sequence on one parser (specification SpecOrch).      *)
(***************************************************************************)
\* The adapter or extractor of the running call reads self._rows.
RowsInUse ==
    \/ pc \in {"gl_lyng", "fly_loop", "lyng_loop", "gt_sort"}
    \/ pc = "gl_fetch" /\ page_no > NumSources(source)

\* C7: the rows an adapter or extractor reads are the rows a new tokenizer
\* makes of the documents fed during the same call; nothing an earlier
\* document left open enters them.
C7_RowsComeFromThisInvocation ==
    RowsInUse => rows = feed(NewParser, Flatten(fed)).rows

(***************************************************************************)
(* Claims on the steps of the Provider A extractor (specification SpecTr). *)
(***************************************************************************)
\* The step is one iteration of the Provider A loop, on rows[idx].
FlyRowStep == pc = "fly_loop" /\ idx <= Len(rows) /\ idx' = idx + 1

\* The records the step added to trs and to n_trs.
EmittedAtRow ==
    {trs'[i] : i \in (Len(trs) + 1)..Len(trs')}
    \cup {n_trs'[i] : i \in (Len(n_trs) + 1)..Len(n_trs')}

\* C12: the transponders emitted at a valid Provider A data row have the
\* row's frequency digits followed by "000" as frequency and the row's
\* symbol-rate digits followed by "000" as symbol_rate, also when the row
\* follows a stream-marker row.
C12_PaddedDigitsOfTheRow ==
    [][(FlyRowStep /\ FlyValidRow(rows[idx])) =>
          \A t \in EmittedAtRow :
              /\ t.frequency = Split(rows[idx][2], " ")[1] \o <<"0", "0", "0">>
              /\ t.symbol_rate = Split(rows[idx][3], " ")[1] \o <<"0", "0", "0">>]_vars

\* The step applies pending stream ids at a row that passed the shape
\* checks.
PendingApplied ==
    /\ FlyRowStep
    /\ Len(rows[idx]) # 1
    /\ fly_shape_ok(rows[idx])
    /\ Len(is_ids) > 0

\* The greatest index below i of a width-1 row, 0 if there is none.
LastMarkerBefore(i) ==
    IF \E j \in 1..(i - 1) : Len(rows[j]) = 1
    THEN CHOOSE j \in 1..(i - 1) :
             Len(rows[j]) = 1 /\ \A k \in (j + 1)..(i - 1) : Len(rows[k]) # 1
    ELSE 0

\* The greatest index below i of a row of another width, 0 if there is none.
LastDataBefore(i) ==
    IF \E j \in 1..(i - 1) : Len(rows[j]) # 1
    THEN CHOOSE j \in 1..(i - 1) :
             Len(rows[j]) # 1 /\ \A k \in (j + 1)..(i - 1) : Len(rows[k]) = 1
    ELSE 0

\* The row that stands immediately before the marker rows preceding row i.
BeforeMarkers(i) == LastDataBefore(LastMarkerBefore(i))

\* C13: when pending stream ids are applied, the list of records is not
\* empty and the record removed and cloned is the one the data row
\* immediately before the marker row produced.
C13_ClonedRecordIsOfPrecedingRow ==
    [][PendingApplied =>
          /\ raised' = "none"
          /\ Len(trs) > 0
          /\ BeforeMarkers(idx) > 0
          /\ BeforeMarkers(idx) = LastMarkerBefore(idx) - 1
          /\ FlyValidRow(rows[BeforeMarkers(idx)])
          /\ trs[Len(trs)] = fly_candidate(rows[BeforeMarkers(idx)])]_vars

\* The stream ids of the pending buffer.
PendingIds == {is_ids[i][2] : i \in 1..Len(is_ids)}

\* C14: the pending stream ids are used once.  A row that passes the shape
\* checks gets them (its clones carry pending ids only, a record appended
\* without pending ids carries none) and the buffer is empty after it, or
\* the extraction has ended; a row skipped for its shape leaves the buffer
\* and the records as they are; a width-1 row only adds to the buffer.
C14_PendingIdsUsedOnce ==
    [][FlyRowStep =>
          IF Len(rows[idx]) = 1
          THEN /\ is_ids' = is_ids \o FindStreams(rows[idx][1])
               /\ trs' = trs /\ n_trs' = n_trs
          ELSE IF fly_shape_ok(rows[idx])
          THEN /\ is_ids' = <<>> \/ pc' = "raised"
               /\ \A i \in (Len(n_trs) + 1)..Len(n_trs') :
                      n_trs'[i].is_id \in PendingIds
               /\ \A i \in (Len(trs) + 1)..Len(trs') :
                      is_ids = <<>> /\ trs'[i].is_id = None
               /\ Len(is_ids) > 0 => Len(trs') < Len(trs) \/ pc' = "raised"
          ELSE is_ids' = is_ids /\ trs' = trs /\ n_trs' = n_trs]_vars

\* C14 witness: a record was appended, stream ids were buffered, a row was
\* skipped for its shape with the ids pending, and the next data row used
\* them and left the buffer empty.
C14_Witness ==
    /\ pc = "fly_loop"
    /\ idx = 5
    /\ FlyValidRow(rows[1])
    /\ rows[2] = FlyMarker12 /\ rows[3] = FlyShort
    /\ FlyValidRow(rows[4])
    /\ is_ids = <<>>
    /\ trs = <<>>
    /\ Len(n_trs) = 2 /\ n_trs[1].is_id = <<"1">> /\ n_trs[2].is_id = <<"2">>

\* C17: no row of a detail page makes an extractor raise; the only
\* exception that leaves get_transponders is the one of the request.
C17_RowsNeverRaise ==
    pc = "raised" => raised = "ConnectionError"

(***************************************************************************)
(* Claims on the adapters (specification SpecList).                        *)
(***************************************************************************)
\* The step is one iteration of the Provider B adapter loop, on rows[idx].
LyngSatStep == pc = "gl_lyng" /\ idx <= Len(rows) /\ idx' = idx + 1

\* C11: a width-7 row emits two adjacent tuples, the group (name from the
\* URL path of cell 1, detail URL of cell 1) and the named satellite (name
\* cell 4, detail URL of cell 3), both with the position parsed from cell 2
\* and the category of cell 5.
C11_Width7EmitsGroupAndNamed ==
    [][(LyngSatStep /\ Len(rows[idx]) = 7) =>
          /\ Len(sats') = Len(sats) + 2
          /\ SubSeq(sats', 1, Len(sats)) = sats
          /\ sats'[Len(sats) + 1] =
                 <<url_name(rows[idx][2]), parse_position(rows[idx][3]),
                   rows[idx][6], base_url \o rows[idx][2], FALSE>>
          /\ sats'[Len(sats) + 2] =
                 <<rows[idx][5], parse_position(rows[idx][3]),
                   rows[idx][6], base_url \o rows[idx][4], FALSE>>]_vars

\* C11 witness: a width-7 row was mapped after another row had emitted.
C11_Witness ==
    /\ pc = "gl_lyng"
    /\ idx = 3
    /\ Len(rows[2]) = 7
    /\ Len(sats) >= 3

\* The greatest index below i of a width-7/8 row, 0 if there is none.
LastPositionRowBefore(i) ==
    IF \E j \in 1..(i - 1) : Len(rows[j]) \in {7, 8}
    THEN CHOOSE j \in 1..(i - 1) :
             /\ Len(rows[j]) \in {7, 8}
             /\ \A k \in (j + 1)..(i - 1) : Len(rows[k]) \notin {7, 8}
    ELSE 0

\* The position of the last width-7/8 row before row i, "0" without one.
CarriedPosition(i) ==
    IF LastPositionRowBefore(i) = 0 THEN <<"0">>
    ELSE IF Len(rows[LastPositionRowBefore(i)]) = 7
    THEN parse_position(rows[LastPositionRowBefore(i)][3])
    ELSE parse_position(non_empty(rows[LastPositionRowBefore(i)])[2])

\* C15: a width-5 row emits one tuple (name cell 2, category cell 3, detail
\* URL of cell 1) with the position of the last width-7/8 row before it in
\* the rows of all pages, "0" without one, and leaves the carried position.
C15_Width5CarriesPosition ==
    [][(LyngSatStep /\ Len(rows[idx]) = 5) =>
          /\ sats' = Append(sats, <<rows[idx][3], CarriedPosition(idx),
                                    rows[idx][4], base_url \o rows[idx][2],
                                    FALSE>>)
          /\ current_pos' = current_pos]_vars

\* C15 witness: a width-5 row of the second page was mapped with the
\* position of a width-7 row of the first page.
C15_Witness ==
    /\ pc = "gl_lyng"
    /\ idx = 3
    /\ fed[1] = RowsDoc(<<Lyng7W>>)
    /\ rows[2] = Lyng5
    /\ Len(sats) = 3
    /\ sats[3][2] = <<"1", ".", "0", "W">>

\* The indices of the rows of 5 cells, all non-empty.
FiveFullCells == {i \in 1..Len(rows) : Len(rows[i]) = 5 /\ Empty \notin
                                        {rows[i][j] : j \in 1..5}}

\* The k-th index of FiveFullCells.
KthKept(k) ==
    CHOOSE i \in FiveFullCells : Cardinality({j \in FiveFullCells : j < i}) = k - 1

\* C16: the Provider A adapter returns, in row order, one tuple (cell 1,
\* parse_position(cell 2), cell 3, cell 0, false) for each row of 5
\* non-empty cells and nothing for any other row.
C16_FlyListIsTheFiveCellRows ==
    (source = "FLYSAT" /\ sat = None /\ pc = "gl_done" /\ rows # <<>>) =>
        /\ Len(result) = Cardinality(FiveFullCells)
        /\ \A k \in 1..Len(result) :
               result[k] = <<rows[KthKept(k)][2],
                             parse_position(rows[KthKept(k)][3]),
                             rows[KthKept(k)][4], rows[KthKept(k)][1], FALSE>>

\* C16 witness: the adapter returned two tuples and dropped a row with an
\* empty cell that stood between their rows.
C16_Witness ==
    /\ source = "FLYSAT" /\ sat = None /\ pc = "gl_done"
    /\ Len(rows) = 3
    /\ rows[1][2] = <<"B">> /\ rows[2] = FlyListGap /\ rows[3] = FlyListE
    /\ result[1][2] = <<"1", ".", "0", "W">> /\ result[2][2] = <<"1", "3", ".", "0", "E">>
    /\ Len(result) = 2

(***************************************************************************)
(* Claim on the handlers (specification SpecTok).                          *)
(***************************************************************************)
\* C18: no sequence of start-tag, text and end-tag events makes a handler
\* raise, an <a> tag without attributes included.
C18_TokenizerNeverRaises == raised = "none"

(***************************************************************************)
(* SettingsDialog (app/ui/settings_dialog.py).  The options mapping holds  *)
(* the name of the stored profile under "profile" and one settings mapping *)
(* per profile; the entry widgets are one mapping of the same keys.        *)
(***************************************************************************)
\* Profile.ENIGMA_2.value, Profile.NEUTRINO_MP.value
ENIGMA_2 == "ENIGMA_2"

NEUTRINO_MP == "NEUTRINO_MP"

\* The settings of one profile, two of the keys of set_settings.
Settings == [host : {<<"a">>, <<"b">>}, telnet_timeout : {5, 9}]

\* The options mappings a caller may pass.
CallerOptions ==
    [profile : {ENIGMA_2, NEUTRINO_MP}, ENIGMA_2 : Settings,
     NEUTRINO_MP : Settings]

\* The mappings get_default_settings() may return.
DefaultSettings ==
    {[profile |-> ENIGMA_2,
      ENIGMA_2 |-> [host |-> <<"a">>, telnet_timeout |-> 5],
      NEUTRINO_MP |-> [host |-> h, telnet_timeout |-> 5]] : h \in {<<"a">>, <<"b">>}}

\* Gtk.ResponseType of self._dialog.run()
Responses == {"OK", "CANCEL", "DELETE_EVENT"}

\* The profile the radio buttons select.
selected_profile(enigma_active) ==
    IF enigma_active THEN ENIGMA_2 ELSE NEUTRINO_MP

\* set_settings: every entry shows the value of the active profile.
set_settings(opts, profile) == opts[profile]

\* on_reset on the mapping: the value of each key that is no str gets the
\* default of each key of the default mapping ("profile" is the str key).
reset_options(opts, def_settings) ==
    [key \in DOMAIN opts |->
        IF key = "profile" THEN opts[key]
        ELSE [k \in DOMAIN opts[key] |->
                 IF k \in DOMAIN def_settings[key]
                 THEN def_settings[key][k] ELSE opts[key][k]]]

\* apply_settings on the mapping: the selected profile is stored and its
\* settings are read from the widgets.
apply_settings(opts, enigma_active, widgets) ==
    [opts EXCEPT !["profile"] = selected_profile(enigma_active),
                 ![selected_profile(enigma_active)] = widgets]

parserVars ==
    <<tokVars, source, raised, events, pages, page_no, idx, trs, n_trs,
      is_ids, sats, current_pos, fed, calls, sat>>

\* After SettingsDialog(transient, options): the dialog is about to run.
DlgInit ==
    /\ InitParser
    /\ InitLocals
    /\ source = "FLYSAT"
    /\ pages = <<>>
    /\ calls = 0
    /\ pc = "dlg_run"
    /\ options \in CallerOptions
    /\ options_before = options
    /\ active_profile = options["profile"]
    /\ fields = set_settings(options, options["profile"])
    /\ enigma_radio_button = (options["profile"] = ENIGMA_2)
    /\ written = <<>>

\* The user selects the other radio button: on_profile_changed, set_profile.
OnProfileChanged ==
    /\ pc = "dlg_run"
    /\ enigma_radio_button' = ~enigma_radio_button
    /\ active_profile' = selected_profile(~enigma_radio_button)
    /\ fields' = set_settings(options, selected_profile(~enigma_radio_button))
    /\ UNCHANGED <<parserVars, pc, result, options, written, options_before>>

\* The user presses reset: on_reset.
OnReset ==
    /\ pc = "dlg_run"
    /\ \E def_settings \in DefaultSettings :
          /\ options' = reset_options(options, def_settings)
          /\ fields' = set_settings(reset_options(options, def_settings),
                                    active_profile)
    /\ UNCHANGED <<parserVars, pc, result, active_profile,
                   enigma_radio_button, written, options_before>>

\* The user edits the entries.
EditFields ==
    /\ pc = "dlg_run"
    /\ \E s \in Settings : s # fields /\ fields' = s
    /\ UNCHANGED <<parserVars, pc, result, options, active_profile,
                   enigma_radio_button, written, options_before>>

\* self._dialog.run() returns and show() ends (lines 49-55).
Respond ==
    /\ pc = "dlg_run"
    /\ \E response \in Responses :
          /\ result' = response
          /\ IF response = "OK"
             THEN /\ options' = apply_settings(options, enigma_radio_button,
                                               fields)
                  /\ active_profile' = selected_profile(enigma_radio_button)
                  /\ written' = Append(written,
                                       apply_settings(options,
                                                      enigma_radio_button,
                                                      fields))
             ELSE UNCHANGED <<options, active_profile, written>>
    /\ pc' = "dlg_closed"
    /\ UNCHANGED <<parserVars, fields, enigma_radio_button, options_before>>

DlgNext == OnProfileChanged \/ OnReset \/ EditFields \/ Respond

SpecDlg == DlgInit /\ [][DlgNext]_vars

\* C19: when the dialog is closed with a response other than OK,
\* write_config has not been called and the options mapping of the caller
\* is the one it was when the dialog was opened.
C19_CancelLeavesOptions ==
    (pc = "dlg_closed" /\ result # "OK") =>
        /\ written = <<>>
        /\ options = options_before

=============================================================================
